---- MODULE Spec2Model ----
(***************************************************************************)
(* Model of ccsds_oem.py: the Epoch class and the OEM container classes    *)
(* (Header and its fields, Metadata, EphemerisData, CovarianceData,        *)
(* Comment) with their constructors and to_string methods, and OEM.valid.  *)
(*                                                                         *)
(* Python values:                                                          *)
(*   - a str is a sequence of one-character strings, '05' is <<"0","5">>;  *)
(*   - None, True, False and Ellipsis are one-element tuples holding their *)
(*     name, so that they differ from every str;                           *)
(*   - an object is a record [cls, attrs]; attrs is the instance           *)
(*     dictionary, a record whose domain is the set of attributes the      *)
(*     constructor has assigned (<<>> when it assigned none);              *)
(*   - the outcome of a call is Return(value) or Raise(exception class).   *)
(***************************************************************************)
EXTENDS Integers, Sequences, FiniteSets

VARIABLES
    obj,     \* the object most recently constructed
    ctor,    \* history: the arguments its constructor was called with
    call,    \* history: the most recent call, [op, args]
    result   \* the outcome of the most recent call

vars == <<obj, ctor, call, result>>

----------------------------------------------------------------------------
(* Bounds of the input sets *)

\* longest hours argument tried
MaxFieldLen == 2

----------------------------------------------------------------------------
(* Python values and outcomes *)

None == <<"None">>

PyTrue == <<"True">>

PyFalse == <<"False">>

Ellipsis == <<"Ellipsis">>

Return(v) == [kind |-> "return", value |-> v, exc |-> ""]

Raise(e) == [kind |-> "raise", value |-> None, exc |-> e]

NoAttrs == << >>

Object(cls, attrs) == [cls |-> cls, attrs |-> attrs]

HasAttr(self, name) == name \in DOMAIN self

\* str(v) as an f-string field applies it: a str is itself, None is 'None'
PyStr(v) == IF v = None THEN <<"N", "o", "n", "e">> ELSE v

DigitChars == <<"0", "1", "2", "3", "4", "5", "6", "7", "8", "9">>

RECURSIVE Decimal(_)
\* str(n) of a non-negative int
Decimal(n) ==
    IF n < 10 THEN <<DigitChars[n + 1]>>
    ELSE Decimal(n \div 10) \o <<DigitChars[(n % 10) + 1]>>

----------------------------------------------------------------------------
(* class Epoch.  The instance dictionary lists the attributes in the order *)
(* of the constructor's parameters.                                        *)

Epoch_init_KeepTimeCode(year, month, day, hours, minutes, seconds, frac_seconds, day_of_year, time_code) ==
    [year |-> year,
     month |-> month,
     day |-> IF day = None THEN None ELSE day,
     hours |-> hours,
     minutes |-> minutes,
     seconds |-> seconds,
     frac_seconds |-> IF frac_seconds = None THEN << >> ELSE frac_seconds,
     day_of_year |-> IF day_of_year = None THEN None ELSE day_of_year,
     time_code |-> IF time_code = None THEN << >> ELSE time_code]

Epoch_init(year, month, day, hours, minutes, seconds, frac_seconds, day_of_year, time_code) ==
    [year |-> year,
     month |-> month,
     day |-> IF day = None THEN None ELSE day,
     hours |-> hours,
     minutes |-> minutes,
     seconds |-> seconds,
     frac_seconds |-> IF frac_seconds = None THEN << >> ELSE frac_seconds,
     day_of_year |-> IF day_of_year = None THEN None ELSE day_of_year,
     time_code |-> IF time_code = None THEN << >> ELSE <<"Z">>]

Epoch_to_string(self, format) ==
    LET frac_secs == IF self.frac_seconds # << >>
                     THEN <<".">> \o PyStr(self.frac_seconds)
                     ELSE << >>
        clock == <<"T">> \o PyStr(self.hours) \o <<":">> \o PyStr(self.minutes)
                         \o <<":">> \o PyStr(self.seconds)
    IN  IF format = <<"A">>
        THEN Return(PyStr(self.year) \o <<"-">> \o PyStr(self.month) \o <<"-">>
                    \o PyStr(self.day) \o clock \o frac_secs \o self.time_code)
        ELSE IF format = <<"B">>
        THEN Return(PyStr(self.year) \o <<"-">> \o PyStr(self.month) \o <<"-">>
                    \o PyStr(self.day_of_year) \o clock \o frac_secs
                    \o self.time_code)
        ELSE Return(None)

----------------------------------------------------------------------------
(* class OEM.Header and the classes nested in it *)

Version_init(major, minor) == [_major |-> major, _minor |-> minor]

Version_to_string(self) ==
    Return(Decimal(self._major) \o <<".">> \o Decimal(self._minor))

\* 'classification: str' in the class body is an annotation, not a value
Classification_to_string(self) ==
    IF HasAttr(self, "classification")
    THEN Return(<<"S", "B", "U", " ">> \o PyStr(self.classification))
    ELSE Raise("AttributeError")

\* the class annotates date_time; to_string reads self.date
CreationDate_to_string(self) ==
    IF HasAttr(self, "date") THEN Return(self.date)
    ELSE Raise("AttributeError")

allowed_agency_operators ==
    { <<"C", "N", "E", "S">>, <<"E", "S", "O", "C">>, Ellipsis }

\* the outcome of the constructor: the instance dictionary, or the error
Originator_init(agency_operator) ==
    IF agency_operator \in allowed_agency_operators
    THEN Return([agency_operator |-> agency_operator])
    ELSE Raise("ValueError")

Originator_to_string(self) == Raise("NotImplementedError")

MessageID_to_string(self) == Raise("NotImplementedError")

Header_init(version, comment) == NoAttrs

Header_to_string(self) == Raise("NotImplementedError")

----------------------------------------------------------------------------
(* class OEM.Metadata, EphemerisData, CovarianceData, Comment; class OEM *)

Metadata_start ==
    <<"M", "E", "T", "A", "_", "S", "T", "A", "R", "T">>

Metadata_stop ==
    <<"M", "E", "T", "A", "_", "S", "T", "O", "P">>

Metadata_init(comment, object_name, object_id, center_name, ref_frame, ref_frame_epoch, time_system, start_time, stop_time, interpolation_degree, useable_start_time, useable_stop_time) == NoAttrs

EphemerisData_init(epoch, x, y, z, x_dot, y_dot, z_dot, x_ddot, y_ddot, z_ddot) == NoAttrs

EphemerisColumns ==
    <<"epoch", "x", "y", "z", "x_dot", "y_dot", "z_dot",
      "x_ddot", "y_ddot", "z_ddot">>

RECURSIVE JoinSpace(_)
\* the fields of a sequence of str, separated by single spaces
JoinSpace(fields) ==
    IF fields = << >> THEN << >>
    ELSE IF Len(fields) = 1 THEN fields[1]
    ELSE fields[1] \o <<" ">> \o JoinSpace(Tail(fields))

\* the f-string reads all ten attributes, in column order; the first one
\* missing from the instance raises AttributeError
EphemerisData_to_string(self) ==
    IF \E i \in 1..Len(EphemerisColumns) : ~HasAttr(self, EphemerisColumns[i])
    THEN Raise("AttributeError")
    ELSE Return(JoinSpace([i \in 1..Len(EphemerisColumns) |->
                              PyStr(self[EphemerisColumns[i]])]))

CovarianceData_init(epoch, cov_ref_frame) == NoAttrs

\* 'comment: str' in the class body is an annotation, not a value
Comment_to_string(self) ==
    IF HasAttr(self, "comment")
    THEN Return(<<"C", "O", "M", "M", "E", "N", "T", " ">> \o PyStr(self.comment))
    ELSE Raise("AttributeError")

OEM_init == NoAttrs

\* the body is 'pass': the call returns None
OEM_valid(self) == Return(None)

----------------------------------------------------------------------------
(* Arguments the callers are modelled to pass *)

Digits == {"0", "1", "2", "3", "4", "5", "6", "7", "8", "9"}

\* the digits the hours argument is built from
FieldDigits == {"0", "2"}

\* all non-empty digit strings of at most MaxFieldLen characters
DigitStrings ==
    UNION { [1..n -> FieldDigits] : n \in 1..MaxFieldLen }

Years == { <<"2", "0", "2", "4">> }

Months == { <<"0", "5">> }

Days == { None, <<"0", "1">> }

DaysOfYear == { None, <<"1", "2", "2">> }

Minutes == { <<"1", "5">> }

Seconds == { <<"2", "3">>, <<"7">> }

VersionNumbers == {0, 3, 12}

FracSeconds == { None, <<"5">> }

TimeCodes == { None, << >>, <<"Z">>, <<"+", "0", "1", ":", "0", "0">> }

Formats == { <<"A">>, <<"B">>, <<"C">> }

AgencyCodes ==
    { <<"C", "N", "E", "S">>, <<"E", "S", "O", "C">>, <<"N", "A", "S", "A">> }

\* the vocabulary tables a caller may hold
VocabularyTables ==
    { { <<"C", "N", "E", "S">> },
      { <<"E", "S", "O", "C">>, <<"N", "A", "S", "A">> } }

\* numeric columns, as text
Reals == { <<"1", ".", "5">>, <<"-", "2">> }

Accelerations == { None, <<"0", ".", "1">> }

EpochTexts == { <<"2", "0", "2", "4", "-", "0", "0", "1", "T",
                  "0", "0", ":", "0", "0", ":", "0", "0">> }

Names == { <<"S", "A", "T">>, <<"U", "T", "C">> }

----------------------------------------------------------------------------
(* The state after the module is loaded: its last line constructs          *)
(* Epoch('2024', '05', '01', '0', '15', '23') and calls to_string() on it  *)

ExampleArgs ==
    [year |-> <<"2", "0", "2", "4">>, month |-> <<"0", "5">>,
     day |-> <<"0", "1">>, hours |-> <<"0">>, minutes |-> <<"1", "5">>,
     seconds |-> <<"2", "3">>, frac_seconds |-> None, day_of_year |-> None,
     time_code |-> None]

EpochOf(a) ==
    Epoch_init(a.year, a.month, a.day, a.hours, a.minutes, a.seconds,
               a.frac_seconds, a.day_of_year, a.time_code)

Init ==
    /\ obj = Object("Epoch", EpochOf(ExampleArgs))
    /\ ctor = ExampleArgs
    /\ call = [op |-> "Epoch.to_string", args |-> [format |-> <<"A">>]]
    /\ result = Epoch_to_string(EpochOf(ExampleArgs), <<"A">>)

----------------------------------------------------------------------------
(* Calls *)

\* a constructor that cannot fail: the new object replaces obj
Construct(cls, attrs, args) ==
    /\ obj' = Object(cls, attrs)
    /\ ctor' = args
    /\ call' = [op |-> cls \o ".__init__", args |-> args]
    /\ result' = Return(None)

\* a method of obj that assigns nothing
Invoke(op, args, outcome) ==
    /\ call' = [op |-> op, args |-> args]
    /\ result' = outcome
    /\ UNCHANGED <<obj, ctor>>

NewEpoch ==
    \E year \in Years, month \in Months, day \in Days,
       hours \in DigitStrings, minutes \in Minutes, seconds \in Seconds,
       frac_seconds \in FracSeconds, day_of_year \in DaysOfYear,
       time_code \in TimeCodes :
        LET a == [year |-> year, month |-> month, day |-> day,
                  hours |-> hours, minutes |-> minutes, seconds |-> seconds,
                  frac_seconds |-> frac_seconds, day_of_year |-> day_of_year,
                  time_code |-> time_code]
        IN  Construct("Epoch", EpochOf(a), a)

EpochToString ==
    /\ obj.cls = "Epoch"
    /\ \E format \in Formats :
        Invoke("Epoch.to_string", [format |-> format],
               Epoch_to_string(obj.attrs, format))

NewVersion ==
    \E major \in VersionNumbers, minor \in VersionNumbers :
        Construct("Version", Version_init(major, minor),
                  [major |-> major, minor |-> minor])

VersionToString ==
    /\ obj.cls = "Version"
    /\ Invoke("Version.to_string", NoAttrs, Version_to_string(obj.attrs))

NewClassification == Construct("Classification", NoAttrs, NoAttrs)

ClassificationToString ==
    /\ obj.cls = "Classification"
    /\ Invoke("Classification.to_string", NoAttrs,
              Classification_to_string(obj.attrs))

NewCreationDate == Construct("CreationDate", NoAttrs, NoAttrs)

CreationDateToString ==
    /\ obj.cls = "CreationDate"
    /\ Invoke("CreationDate.to_string", NoAttrs,
              CreationDate_to_string(obj.attrs))

\* the caller holds a vocabulary table; the constructor has no parameter
\* for it.  When the constructor raises, no object is created.
NewOriginator ==
    \E agency_operator \in AgencyCodes, table \in VocabularyTables :
        LET a == [agency_operator |-> agency_operator, table |-> table]
            r == Originator_init(agency_operator)
        IN  IF r.kind = "return"
            THEN Construct("Originator", r.value, a)
            ELSE Invoke("Originator.__init__", a, r)

OriginatorToString ==
    /\ obj.cls = "Originator"
    /\ Invoke("Originator.to_string", NoAttrs, Originator_to_string(obj.attrs))

NewMessageID == Construct("MessageID", NoAttrs, NoAttrs)

MessageIDToString ==
    /\ obj.cls = "MessageID"
    /\ Invoke("MessageID.to_string", NoAttrs, MessageID_to_string(obj.attrs))

NewHeader ==
    \E major \in VersionNumbers, minor \in VersionNumbers :
        LET version == Object("Version", Version_init(major, minor))
            comment == Object("Comment", NoAttrs)
        IN  Construct("Header", Header_init(version, comment),
                      [version |-> version, comment |-> comment])

HeaderToString ==
    /\ obj.cls = "Header"
    /\ Invoke("Header.to_string", NoAttrs, Header_to_string(obj.attrs))

NewMetadata ==
    \E object_name \in Names, time_system \in Names,
       start_time \in EpochTexts, stop_time \in EpochTexts,
       interpolation_degree \in 0..1 :
        LET comment == Object("Comment", NoAttrs)
            a == [comment |-> comment, object_name |-> object_name,
                  object_id |-> object_name, center_name |-> object_name,
                  ref_frame |-> object_name, ref_frame_epoch |-> start_time,
                  time_system |-> time_system, start_time |-> start_time,
                  stop_time |-> stop_time,
                  interpolation_degree |-> interpolation_degree,
                  useable_start_time |-> None, useable_stop_time |-> None]
        IN  Construct("Metadata",
                      Metadata_init(a.comment, a.object_name, a.object_id,
                                    a.center_name, a.ref_frame,
                                    a.ref_frame_epoch, a.time_system,
                                    a.start_time, a.stop_time,
                                    a.interpolation_degree,
                                    a.useable_start_time, a.useable_stop_time),
                      a)

NewEphemerisData ==
    \E epoch \in EpochTexts, x \in Reals, y \in Reals,
       acc \in Accelerations :
        LET a == [epoch |-> epoch, x |-> x, y |-> y, z |-> x,
                  x_dot |-> y, y_dot |-> x, z_dot |-> y,
                  x_ddot |-> acc, y_ddot |-> acc, z_ddot |-> acc]
        IN  Construct("EphemerisData",
                      EphemerisData_init(a.epoch, a.x, a.y, a.z, a.x_dot,
                                         a.y_dot, a.z_dot, a.x_ddot,
                                         a.y_ddot, a.z_ddot),
                      a)

EphemerisDataToString ==
    /\ obj.cls = "EphemerisData"
    /\ Invoke("EphemerisData.to_string", NoAttrs,
              EphemerisData_to_string(obj.attrs))

NewCovarianceData ==
    \E epoch \in EpochTexts, cov_ref_frame \in Names :
        Construct("CovarianceData", CovarianceData_init(epoch, cov_ref_frame),
                  [epoch |-> epoch, cov_ref_frame |-> cov_ref_frame])

NewComment == Construct("Comment", NoAttrs, NoAttrs)

CommentToString ==
    /\ obj.cls = "Comment"
    /\ Invoke("Comment.to_string", NoAttrs, Comment_to_string(obj.attrs))

NewOEM == Construct("OEM", OEM_init, NoAttrs)

OEMValid ==
    /\ obj.cls = "OEM"
    /\ Invoke("OEM.valid", NoAttrs, OEM_valid(obj.attrs))

Next ==
    \/ NewEpoch
    \/ EpochToString
    \/ NewVersion
    \/ VersionToString
    \/ NewClassification
    \/ ClassificationToString
    \/ NewCreationDate
    \/ CreationDateToString
    \/ NewOriginator
    \/ OriginatorToString
    \/ NewMessageID
    \/ MessageIDToString
    \/ NewHeader
    \/ HeaderToString
    \/ NewMetadata
    \/ NewEphemerisData
    \/ EphemerisDataToString
    \/ NewCovarianceData
    \/ NewComment
    \/ CommentToString
    \/ NewOEM
    \/ OEMValid

Spec == Init /\ [][Next]_vars

----------------------------------------------------------------------------
(* Reading a rendered text back *)

\* position of the first c in s, 0 when there is none
IndexOf(s, c) ==
    IF \E i \in 1..Len(s) : s[i] = c
    THEN CHOOSE i \in 1..Len(s) : s[i] = c /\ \A j \in 1..(i - 1) : s[j] # c
    ELSE 0

Before(s, c) ==
    IF IndexOf(s, c) = 0 THEN s ELSE SubSeq(s, 1, IndexOf(s, c) - 1)

After(s, c) ==
    IF IndexOf(s, c) = 0 THEN << >> ELSE SubSeq(s, IndexOf(s, c) + 1, Len(s))

Contains(s, t) ==
    \E i \in 0..(Len(s) - Len(t)) : SubSeq(s, i + 1, i + Len(t)) = t

IsTwoDigits(f) == Len(f) = 2 /\ \A i \in 1..2 : f[i] \in Digits

\* the hh, mm and ss fields of a rendered epoch: what follows 'T', cut at
\* the ':' separators, the seconds ending at '.', 'Z' or the end of the text
HoursField(text) == Before(After(text, "T"), ":")

MinutesField(text) == Before(After(After(text, "T"), ":"), ":")

SecondsField(text) ==
    Before(Before(After(After(After(text, "T"), ":"), ":"), "."), "Z")

\* hh:mm:ss[.ffff][Z] of an Epoch, as the two formats define it
ClockText(self) ==
    self.hours \o <<":">> \o self.minutes \o <<":">> \o self.seconds
    \o (IF self.frac_seconds = << >> THEN << >>
        ELSE <<".">> \o self.frac_seconds)
    \o self.time_code

RenderedEpoch ==
    /\ call.op = "Epoch.to_string"
    /\ call.args.format \in { <<"A">>, <<"B">> }

EntityToStringOps ==
    { "Header.to_string", "Version.to_string", "Classification.to_string",
      "CreationDate.to_string", "Originator.to_string", "MessageID.to_string",
      "Comment.to_string", "EphemerisData.to_string" }

----------------------------------------------------------------------------
(* Claims *)

\* C1: rendering a Document and parsing the text back yields the Document.
\* The rendering of a Document starts with the rendering of its Header, and
\* parsing can only recover the header fields from a text that carries them:
\* Header.to_string returns text, and the text contains the version the
\* Header was constructed with.
C1_RoundTrip ==
    call.op = "Header.to_string" =>
        /\ result.kind = "return"
        /\ result.value # None
        /\ Contains(result.value, Version_to_string(ctor.version.attrs).value)

\* C2: every constructed Epoch has exactly one of day and day_of_year set,
\* the other being None.
C2_ExactlyOneDayField ==
    obj.cls = "Epoch" =>
        (obj.attrs.day = None) # (obj.attrs.day_of_year = None)

\* C3: for an Epoch with a day-of-year, to_string('B') is
\* YYYY-DDDThh:mm:ss[.ffff][Z] with no month field, and for an Epoch with a
\* day of month to_string('A') is YYYY-MM-DDThh:mm:ss[.ffff][Z].
C3_FormatShapes ==
    call.op = "Epoch.to_string" =>
        /\ (call.args.format = <<"B">> /\ obj.attrs.day_of_year # None) =>
               result = Return(obj.attrs.year \o <<"-">>
                               \o obj.attrs.day_of_year \o <<"T">>
                               \o ClockText(obj.attrs))
        /\ (call.args.format = <<"A">> /\ obj.attrs.day # None) =>
               result = Return(obj.attrs.year \o <<"-">> \o obj.attrs.month
                               \o <<"-">> \o obj.attrs.day \o <<"T">>
                               \o ClockText(obj.attrs))

\* C4: in the text returned by Epoch.to_string the hours, minutes and seconds
\* fields are each exactly two digits.
C4_TwoDigitClockFields ==
    RenderedEpoch =>
        /\ IsTwoDigits(HoursField(result.value))
        /\ IsTwoDigits(MinutesField(result.value))
        /\ IsTwoDigits(SecondsField(result.value))

\* C5: constructing an Originator succeeds exactly when the code is in the
\* caller's vocabulary table; then the Originator stores that code, and
\* otherwise the call fails with UnknownVocabularyEntry and no Originator
\* carrying the code exists.
C5_CallerVocabulary ==
    call.op = "Originator.__init__" =>
        IF call.args.agency_operator \in call.args.table
        THEN /\ result.kind = "return"
             /\ obj = Object("Originator",
                             [agency_operator |-> call.args.agency_operator])
        ELSE /\ result = Raise("UnknownVocabularyEntry")
             /\ ~(/\ obj.cls = "Originator"
                  /\ obj.attrs.agency_operator = call.args.agency_operator)

\* C6: to_string of every entity returns text: it neither raises nor
\* returns None.
C6_AllRenderingImplemented ==
    call.op \in EntityToStringOps =>
        result.kind = "return" /\ result.value # None

\* C7: an ephemeris record renders as its construction values separated by
\* single spaces, in column order: 7 fields without acceleration, 10 with.
C7_EphemerisColumns ==
    call.op = "EphemerisData.to_string" =>
        result = Return(JoinSpace(
            IF ctor.x_ddot = None
            THEN <<ctor.epoch, ctor.x, ctor.y, ctor.z,
                   ctor.x_dot, ctor.y_dot, ctor.z_dot>>
            ELSE <<ctor.epoch, ctor.x, ctor.y, ctor.z,
                   ctor.x_dot, ctor.y_dot, ctor.z_dot,
                   ctor.x_ddot, ctor.y_ddot, ctor.z_ddot>>))

\* C8: validation ends in Done only after an EphemerisBlock has closed, and
\* end-of-input before that is a TruncatedDocument error.  An OEM whose
\* instance holds nothing holds no closed block: validating it must raise
\* TruncatedDocument.
C8_TruncatedDocument ==
    (call.op = "OEM.valid" /\ obj.attrs = NoAttrs) =>
        result = Raise("TruncatedDocument")

\* C9: OEM.valid() never raises and returns a boolean.
C9_ValidReturnsBool ==
    call.op = "OEM.valid" =>
        result.kind = "return" /\ result.value \in {PyTrue, PyFalse}

\* C10: the stored time_code of an Epoch is '' when the argument was absent
\* and 'Z' when any argument was given; to_string leaves the Epoch as it
\* was; and the text to_string returns in format A or B ends in 'Z' right
\* after a digit when a time_code was given, and in a digit otherwise.
C10_OnlyZuluMarker ==
    /\ [](obj.cls = "Epoch" =>
            obj.attrs.time_code =
                (IF ctor.time_code = None THEN << >> ELSE <<"Z">>))
    /\ [][call'.op = "Epoch.to_string" => obj' = obj]_vars
    /\ [](RenderedEpoch =>
            LET text == result.value
                n == Len(text)
            IN  /\ result.kind = "return"
                /\ text # None
                /\ IF ctor.time_code = None
                   THEN text[n] \in Digits
                   ELSE text[n] = "Z" /\ text[n - 1] \in Digits)

\* an Epoch constructed with a time_code other than 'Z' has been rendered
C10_Witness ==
    /\ RenderedEpoch
    /\ call.args.format = <<"B">>
    /\ ctor.time_code = <<"+", "0", "1", ":", "0", "0">>
    /\ result.value[Len(result.value)] = "Z"

====
